---- MODULE Spec2Model ----
(***************************************************************************)
(* A model of midisynth (src/src/main.rs): the sequencer that merges the   *)
(* per-track delta-time streams and maps ticks to time, the renderer's     *)
(* note scheduler, the stereo mixer and the pipeline that joins them.      *)
(*                                                                         *)
(* Each component has its own specification over the variables it owns;    *)
(* the variables of the other components stay at their initial values.     *)
(***************************************************************************)
EXTENDS Integers, Sequences, FiniteSets, TLC

(***************************************************************************)
(* Bounds of the model.                                                    *)
(***************************************************************************)
\* Width of the tick counter.  The program's ticks are u32; the model keeps
\* the modular arithmetic and the sentinel at a width TLC can count.
TickBits == 11
\* Most tracks of a MIDI file.
NTracks == 2
\* Most events of a MIDI file, over all of its tracks.
MaxEvents == 3

(***************************************************************************)
(* Option<T>: None is the empty sequence, Some(x) the one-element one.     *)
(***************************************************************************)
None == << >>
Some(x) == << x >>
IsSome(o) == Len(o) = 1
Unwrap(o) == o[1]

(***************************************************************************)
(* Integer helpers.                                                        *)
(***************************************************************************)
\* u32::MAX, at the model's width.
U32_MAX == 2^TickBits - 1

RECURSIVE GCD(_, _)
GCD(a, b) == IF b = 0 THEN a ELSE GCD(b, a % b)

\* floor(a * b / c) for naturals a, b and c > 0.  The program evaluates
\* a * b / c in usize, where these products cannot overflow; reducing b / c
\* and splitting a keeps the same value inside TLC's integers.
MulDiv(a, b, c) ==
    LET g == GCD(b, c)
        b1 == b \div g
        c1 == c \div g
    IN (a \div c1) * b1 + ((a % c1) * b1) \div c1

\* Release-profile u32 arithmetic: the result modulo 2^w.
WrapU32(x) == (x + U32_MAX + 1) % (U32_MAX + 1)

\* A u32 result that does not fit: a panic with overflow checks, a wrap without.
OverflowsU32(x) == x < 0 \/ x > U32_MAX

(***************************************************************************)
(* The input: track events as the MIDI parser delivers them.               *)
(***************************************************************************)
\* The numbers of tracks a MIDI file may have.
TrackCounts == 0..NTracks

\* Delta times: a tie, a quarter note at 480 ticks per beat, and a delta that
\* spans the tick range (in the program: the sum of sixteen or more u28 deltas).
Deltas == {0, 480, U32_MAX}

\* Tempo values (microseconds per quarter note) of tempo meta events.
Tempos == {1000000}

\* Payloads of track-name meta events: valid UTF-8 ("a") and invalid bytes.
NameBytes == {<<97>>, <<255>>}

\* midly::TrackEventKind, as far as play_all tells the kinds apart.
Payloads ==
    {[kind |-> "Tempo", val |-> <<t>>] : t \in Tempos}
    \cup {[kind |-> "TrackName", val |-> b] : b \in NameBytes}
    \cup {[kind |-> "EndOfTrack", val |-> << >>]}
    \cup {[kind |-> "NoteOn", val |-> <<60, 100>>]}
    \cup {[kind |-> "NoteOff", val |-> <<60, 0>>]}

\* The events of the model's files; track names stand at delta 0.
TrackEvents ==
    {e \in {[delta |-> d, kind |-> p.kind, val |-> p.val] : d \in Deltas, p \in Payloads} :
        e.kind = "TrackName" => e.delta = 0}

\* midly::Timing: Metrical(ticks per beat) or Timecode.
Timings == {[kind |-> "Metrical", tpb |-> 480], [kind |-> "Metrical", tpb |-> 0],
            [kind |-> "Timecode", tpb |-> 0]}

\* String::from_utf8(bytes).ok(): the bytes when they are valid UTF-8 (here:
\* ASCII), None otherwise.
FromUtf8(b) == IF \A i \in 1..Len(b) : b[i] < 128 THEN Some(b) ELSE None

VARIABLES
    overflow_checks,  \* the build, once an overflow has shown it: Some(TRUE) = overflow
                      \* checks (debug), Some(FALSE) = wrapping (release)
    timing,           \* mf_object.header.timing
    seq,              \* Sequencer.tracks: idx -> [iter, next, ticks, count]
    pc,               \* play_all: "start", "loop", "done", "panic"
    ticks_per_beat, tempo, base_time, base_ticks,
    tracks,           \* play_all's Vec<PlayerTrack>
    pbar,             \* the progress bar: [length, position, finished]
    out,              \* the SequencerEvents next() has returned, each with its time
    play_panic        \* what made play_all panic, if it did

\* The builds an overflow can still show: the one an earlier overflow of the
\* run has shown, or either.
Builds == IF IsSome(overflow_checks) THEN {Unwrap(overflow_checks)} ELSE BOOLEAN

seqVars == <<overflow_checks, timing, seq, pc, ticks_per_beat, tempo, base_time,
             base_ticks, tracks, pbar, out, play_panic>>

VARIABLES
    r_track,      \* Renderer.track: the PlayerTrack to render
    r_instr,      \* render's instr: [bank, preset, transpose]
    r_padding,    \* render's padding, in microseconds
    synth,        \* Renderer.synth: its settings and the calls it has received
    sc,           \* the sample count
    left, right,  \* the lengths of the two output buffers
    it,           \* the peekable iterator: the index of the event peek() shows
    si,           \* the sample offset of the block the loop is at
    transpose,    \* instr.transpose.unwrap_or(0)
    r_pbar,       \* render's progress bar
    rpc           \* render: "start", "loop", "done", "panic"

renVars == <<r_track, r_instr, r_padding, synth, sc, left, right, it, si, transpose,
             r_pbar, rpc>>

VARIABLES
    m_tracks,  \* Mixer.tracks: the MixerTracks
    m_sc,      \* mix_stereo's sc
    m_out,     \* mix_stereo's out
    m_si,      \* the frame the loop is at
    m_pbar,    \* mix_stereo's progress bar
    mpc        \* mix_stereo: "start", "loop", "done", "panic"

mixVars == <<m_tracks, m_sc, m_out, m_si, m_pbar, mpc>>

VARIABLES
    main_pc,    \* midisynth: "config", "soundfont", "midi", "sequence", "spawn",
                \* "check", "join", "mix", "write", then "ok", "err" or "panic"
    instr,      \* the configuration's "instr" table
    p_tracks,   \* the names of the PlayerTracks play_all returned
    tidx,       \* the spawn loop's track index
    sidx,       \* the position in the current track's settings
    threads,    \* the workers spawned so far: track, setting and status
    mtracks,    \* how many workers have been joined into mtracks
    warnings,   \* the warnings printed by the spawn loop
    error,      \* the message midisynth returned in Err, if any
    mixed,      \* whether mix_stereo has been called
    written,    \* whether wavers::write has been called
    reported,   \* whether main has printed the error
    panic_in    \* the call in which the main thread panicked, if it did

pipeVars == <<main_pc, instr, p_tracks, tidx, sidx, threads, mtracks, warnings,
              error, mixed, written, reported, panic_in>>

VARIABLES
    gain_db,   \* MixerGainFactors::new: the gain argument, in dB
    pan,       \* the pan argument, in units of 1 / PanOne
    pan_rad,   \* the pan angle, in units of (pi / 4) / PanOne
    factors,   \* the MixerGainFactors returned, if any
    gpc        \* "start", "done"

gainVars == <<gain_db, pan, pan_rad, factors, gpc>>

vars == <<seqVars, renVars, mixVars, pipeVars, gainVars>>

\* The variables of the components other than the sequencer, and so on.
notSeqVars == <<renVars, mixVars, pipeVars, gainVars>>
notRenVars == <<seqVars, mixVars, pipeVars, gainVars>>
notMixVars == <<seqVars, renVars, pipeVars, gainVars>>
notPipeVars == <<seqVars, renVars, mixVars, gainVars>>
notGainVars == <<seqVars, renVars, mixVars, pipeVars>>

(***************************************************************************)
(* SequencedTrack                                                          *)
(***************************************************************************)
\* What self.track.next() can return: None at the end of the track.
IterNext(t) == IF t.iter = 0 THEN {None} ELSE {Some(e) : e \in TrackEvents}

\* SequencedTrack::advance overflows in self.ticks + delta.
AdvanceOverflows(t, e) == IsSome(e) /\ OverflowsU32(t.ticks + Unwrap(e).delta)

\* SequencedTrack::advance, e being what the iterator returned.
Advance(t, e) ==
    [t EXCEPT !.iter = IF IsSome(e) THEN t.iter - 1 ELSE 0,
              !.next = e,
              !.ticks = IF IsSome(e) THEN WrapU32(t.ticks + Unwrap(e).delta) ELSE U32_MAX]

\* SequencedTrack::create for a track of `count` events whose first is e.
Create(count, e) ==
    Advance([iter |-> count, next |-> None, ticks |-> 0, count |-> count], e)

(***************************************************************************)
(* Sequencer::next                                                         *)
(***************************************************************************)
\* Iterator::min_by_key over (idx, ticks): the fold keeps the element it has
\* unless the new one is strictly smaller, so the first minimum wins.
RECURSIVE MinFold(_, _, _)
MinFold(s, best, i) ==
    IF i \notin DOMAIN s THEN best
    ELSE MinFold(s, IF s[i].ticks < s[best].ticks THEN i ELSE best, i + 1)

MinByKey(s) == MinFold(s, 0, 1)

\* next() returns Some: there is a track and the minimum is not u32::MAX.
HasNext(s) == DOMAIN s # {} /\ s[MinByKey(s)].ticks # U32_MAX

(***************************************************************************)
(* Sequencer::play_all                                                     *)
(***************************************************************************)
DefaultPlayerTrack == [name |-> None, length |-> 0, events |-> << >>]

RECURSIVE SumCounts(_, _)
SumCounts(s, i) == IF i \notin DOMAIN s THEN 0 ELSE s[i].count + SumCounts(s, i + 1)

\* A match that takes a note-off for a note as well.
ApplyNoteOffToo(trs, idx, ev, time) ==
    CASE ev.kind = "TrackName" -> [trs EXCEPT ![idx].name = FromUtf8(ev.val)]
      [] ev.kind = "EndOfTrack" -> [trs EXCEPT ![idx].length = time]
      [] ev.kind \in {"NoteOn", "NoteOff"} ->
            [trs EXCEPT ![idx].events =
                Append(@, [time |-> time, note |-> ev.val[1], velocity |-> ev.val[2]])]
      [] OTHER -> trs

\* The match on e.event.kind: the tracks after the event.
ApplyToTracks(trs, idx, ev, time) ==
    CASE ev.kind = "TrackName" -> [trs EXCEPT ![idx].name = FromUtf8(ev.val)]
      [] ev.kind = "EndOfTrack" -> [trs EXCEPT ![idx].length = time]
      [] ev.kind = "NoteOn" ->
            [trs EXCEPT ![idx].events =
                Append(@, [time |-> time, note |-> ev.val[1], velocity |-> ev.val[2]])]
      [] OTHER -> trs

\* The start of play_all, to the first self.next().
PlayBegin ==
    /\ pc = "start"
    /\ IF timing.kind = "Metrical"
       THEN /\ ticks_per_beat' = timing.tpb
            /\ tempo' = 500000
            /\ base_time' = 0
            /\ base_ticks' = 0
            /\ tracks' = [i \in DOMAIN seq |-> DefaultPlayerTrack]
            /\ pbar' = [pbar EXCEPT !.length = SumCounts(seq, 0)]
            /\ pc' = "loop"
            /\ UNCHANGED play_panic
       ELSE \* todo!()
            /\ pc' = "panic"
            /\ play_panic' = Some("not yet implemented")
            /\ UNCHANGED <<ticks_per_beat, tempo, base_time, base_ticks, tracks, pbar>>
    /\ UNCHANGED <<overflow_checks, timing, seq, out>>
    /\ UNCHANGED notSeqVars

\* One iteration of `while let Some(e) = self.next()`, the iterator of the
\* selected track returning `inp`.
PlayStep ==
    /\ pc = "loop"
    /\ HasNext(seq)
    /\ LET idx == MinByKey(seq)
           track == seq[idx]
           ticks == track.ticks
           event == Unwrap(track.next)
       IN \E inp \in IterNext(track) :
          LET delta_ticks == WrapU32(ticks - base_ticks)
              delta_time == MulDiv(delta_ticks, tempo, ticks_per_beat)
              time == base_time + delta_time
              \* the u32 operations of this iteration that do not fit, in the
              \* order the iteration reaches them
              overflows ==
                  \/ AdvanceOverflows(track, inp)
                  \/ OverflowsU32(ticks - base_ticks)
                  \/ /\ ticks_per_beat # 0
                     /\ event.kind = "Tempo"
                     /\ OverflowsU32(base_ticks + delta_ticks)
          IN \E checks \in (IF overflows THEN Builds ELSE {FALSE}) :
             LET panics == (checks /\ overflows) \/ ticks_per_beat = 0 IN
             /\ overflow_checks' = IF overflows THEN Some(checks) ELSE overflow_checks
             /\ IF panics
                THEN /\ pc' = "panic"
                     /\ play_panic' =
                           Some(IF checks /\ AdvanceOverflows(track, inp)
                                THEN "attempt to add with overflow"
                                ELSE IF checks /\ OverflowsU32(ticks - base_ticks)
                                THEN "attempt to subtract with overflow"
                                ELSE IF ticks_per_beat = 0
                                THEN "attempt to divide by zero"
                                ELSE "attempt to add with overflow")
                     /\ UNCHANGED <<seq, tempo, base_time, base_ticks, tracks, pbar, out>>
                ELSE /\ seq' = [seq EXCEPT ![idx] = Advance(track, inp)]
                     /\ IF event.kind = "Tempo"
                        THEN /\ tempo' = event.val[1]
                             /\ base_time' = base_time + delta_time
                             /\ base_ticks' = WrapU32(base_ticks + delta_ticks)
                        ELSE UNCHANGED <<tempo, base_time, base_ticks>>
                     /\ tracks' = ApplyToTracks(tracks, idx, event, time)
                     /\ pbar' = [pbar EXCEPT !.position = @ + 1]
                     /\ out' = Append(out, [idx |-> idx, ticks |-> ticks, event |-> event,
                                            time |-> time])
                     /\ pc' = "loop"
                     /\ UNCHANGED play_panic
    /\ UNCHANGED <<timing, ticks_per_beat>>
    /\ UNCHANGED notSeqVars

\* self.next() returns None: the loop ends and play_all returns the tracks.
PlayEnd ==
    /\ pc = "loop"
    /\ ~HasNext(seq)
    /\ pbar' = [pbar EXCEPT !.finished = TRUE]
    /\ pc' = "done"
    /\ UNCHANGED <<overflow_checks, timing, seq, ticks_per_beat, tempo, base_time,
                   base_ticks, tracks, out, play_panic>>
    /\ UNCHANGED notSeqVars

(***************************************************************************)
(* Renderer::render                                                        *)
(***************************************************************************)
\* Most notes of the track a renderer is given.
MaxNotes == 2

\* Sample rates and block sizes of the synthesizer.
SampleRates == {44100, 22050}
BlockSizes == {64, 8}

\* Track lengths and paddings, in microseconds.
TrackLengths == {0, 200, 3000}
Paddings == {0, 1500}

\* The notes of a track: times at, inside and past the first blocks (at
\* 44100 Hz the block of 64 samples at offset 64 starts at 1451).
NoteTimes == {0, 1000, 1451, 1452}
NoteKeys == {0, 127}
PlayerEvents == {[time |-> t, note |-> k, velocity |-> 100] : t \in NoteTimes, k \in NoteKeys}

\* instr.transpose: Option<i8>.
Transposes == {None, Some(-128), Some(-1), Some(127)}

RECURSIVE SeqsUpTo(_, _)
SeqsUpTo(S, n) ==
    IF n = 0 THEN {<< >>}
    ELSE LET shorter == SeqsUpTo(S, n - 1)
         IN shorter \cup {Append(q, x) : q \in {r \in shorter : Len(r) = n - 1}, x \in S}

\* No rounding at all.
NotRounded(n, m) == n

\* A next_multiple_of that always steps to the following multiple.
NextMultipleOfAbove(n, m) == (n \div m + 1) * m

\* usize::next_multiple_of.
NextMultipleOf(n, m) == IF n % m = 0 THEN n ELSE n + (m - (n % m))

\* A block time taken one sample late.
BlockTimeOneSampleLate(s, rate) == MulDiv(s + 1, 1000000, rate)

\* The start time of the block at sample offset s: (si * 1_000_000) / sr.
BlockTime(s, rate) == MulDiv(s, 1000000, rate)

\* u8::saturating_add_signed, which never panics.
SaturatingAddSigned(note, tr) ==
    Some(IF note + tr < 0 THEN 0 ELSE IF note + tr > 255 THEN 255 ELSE note + tr)

\* u8::strict_add_signed: None stands for its panic on overflow.
StrictAddSigned(note, tr) ==
    IF note + tr < 0 \/ note + tr > 255 THEN None ELSE Some(note + tr)

\* Option<i8>::unwrap_or(0).
UnwrapOr0(o) == IF IsSome(o) THEN Unwrap(o) ELSE 0

\* render, to the first iteration of the block loop.
RenderBegin ==
    /\ rpc = "start"
    /\ LET count == NextMultipleOf(
                        MulDiv(r_track.length + r_padding, synth.sample_rate, 1000000),
                        synth.block_size)
       IN /\ sc' = count
          /\ left' = count
          /\ right' = count
          /\ r_pbar' = [r_pbar EXCEPT !.length = count]
    /\ it' = 1
    /\ synth' = [synth EXCEPT !.msgs = @ \o <<[channel |-> 0, command |-> 176, data1 |-> 0,
                                                data2 |-> r_instr.bank],
                                               [channel |-> 0, command |-> 192,
                                                data1 |-> r_instr.preset, data2 |-> 0]>>]
    /\ transpose' = UnwrapOr0(r_instr.transpose)
    /\ si' = 0
    /\ rpc' = "loop"
    /\ UNCHANGED <<r_track, r_instr, r_padding>>
    /\ UNCHANGED notRenVars

\* it.peek() shows an event that is due at the block at offset si.
PeekDue ==
    /\ it <= Len(r_track.events)
    /\ r_track.events[it].time <= BlockTime(si, synth.sample_rate)

\* One turn of the inner loop that dispatches a note.
DispatchNote ==
    /\ rpc = "loop"
    /\ si < sc
    /\ PeekDue
    /\ LET e == r_track.events[it]
           note == StrictAddSigned(e.note, transpose)
       IN IF IsSome(note)
          THEN /\ synth' = [synth EXCEPT !.notes =
                              Append(@, [key |-> Unwrap(note), vel |-> e.velocity, at |-> si])]
               /\ it' = it + 1
               /\ rpc' = "loop"
          ELSE /\ rpc' = "panic"
               /\ UNCHANGED <<synth, it>>
    /\ UNCHANGED <<r_track, r_instr, r_padding, sc, left, right, si, transpose, r_pbar>>
    /\ UNCHANGED notRenVars

\* The inner loop breaks and the block at offset si is rendered.
RenderBlock ==
    /\ rpc = "loop"
    /\ si < sc
    /\ ~PeekDue
    /\ IF si + synth.block_size <= left /\ si + synth.block_size <= right
       THEN /\ synth' = [synth EXCEPT !.blocks = @ + 1]
            /\ r_pbar' = [r_pbar EXCEPT !.position = @ + synth.block_size]
            /\ si' = si + synth.block_size
            /\ rpc' = "loop"
       ELSE \* a slice out of range
            /\ rpc' = "panic"
            /\ UNCHANGED <<synth, r_pbar, si>>
    /\ UNCHANGED <<r_track, r_instr, r_padding, sc, left, right, it, transpose>>
    /\ UNCHANGED notRenVars

\* The block loop is over: render returns (left, right).
RenderEnd ==
    /\ rpc = "loop"
    /\ si >= sc
    /\ r_pbar' = [r_pbar EXCEPT !.finished = TRUE]
    /\ rpc' = "done"
    /\ UNCHANGED <<r_track, r_instr, r_padding, synth, sc, left, right, it, si, transpose>>
    /\ UNCHANGED notRenVars

\* A renderer that has not started, over its own variables.
RenderStart ==
    /\ sc = 0
    /\ left = 0
    /\ right = 0
    /\ it = 0
    /\ si = 0
    /\ transpose = 0
    /\ r_pbar = [length |-> 0, position |-> 0, finished |-> FALSE]
    /\ rpc = "start"

\* The renderer of a specification that does not render.
RenderIdle ==
    /\ r_track = DefaultPlayerTrack
    /\ r_instr = [bank |-> 0, preset |-> 0, transpose |-> None]
    /\ r_padding = 0
    /\ synth = [sample_rate |-> 44100, block_size |-> 64, msgs |-> << >>, notes |-> << >>,
                blocks |-> 0]
    /\ RenderStart

(***************************************************************************)
(* f32, as far as the mixer's arithmetic needs it: the finite values are   *)
(* modelled by integers (on which f32 arithmetic is exact in the model's   *)
(* range); the infinities and NaN follow IEEE 754.                         *)
(***************************************************************************)
Fin(n) == [cls |-> "finite", v |-> n]
Inf(sign) == [cls |-> "inf", v |-> sign]
NaN == [cls |-> "nan", v |-> 0]

Sign(n) == IF n > 0 THEN 1 ELSE IF n < 0 THEN -1 ELSE 0

\* a * b in f32.
FMul(a, b) ==
    CASE a.cls = "nan" \/ b.cls = "nan" -> NaN
      [] a.cls = "finite" /\ b.cls = "finite" -> Fin(a.v * b.v)
      [] a.v = 0 \/ b.v = 0 -> NaN
      [] OTHER -> Inf(Sign(a.v) * Sign(b.v))

\* a + b in f32.
FAdd(a, b) ==
    CASE a.cls = "nan" \/ b.cls = "nan" -> NaN
      [] a.cls = "finite" /\ b.cls = "finite" -> Fin(a.v + b.v)
      [] a.cls = "inf" /\ b.cls = "inf" -> IF a.v = b.v THEN a ELSE NaN
      [] a.cls = "inf" -> a
      [] OTHER -> b

(***************************************************************************)
(* MixerGainFactors::new                                                   *)
(***************************************************************************)
\* The pan value 1.0, in the model's units: pans are multiples of 1 / PanOne
\* (binary fractions, which f32 holds exactly).
PanOne == 64

\* The pan and gain settings a configuration may give: pan inside and outside
\* of -1 .. 1.
Pans == (-2 * PanOne)..(2 * PanOne)
Gains == {0, -6}

\* The f32 remainder a % b: truncated, with the sign of a.
FRem(a, b) == IF a >= 0 THEN a % b ELSE -((-a) % b)

\* (((pan % 1.0) + 1.0) / 2.0) * (PI / 2.0), in units of (pi / 4) / PanOne.
PanRad(p) == FRem(p, PanOne) + PanOne

\* MixerGainFactors::new(gain_db, pan): the factors are kept as the terms
\* that make them, gain * fn(angle + offset), `floor` being the max(0.0).
GainFactorsNew ==
    /\ gpc = "start"
    /\ pan_rad' = PanRad(pan)
    /\ factors' = Some(
         [l_to_l |-> [gain_db |-> gain_db, fn |-> "cos", angle |-> PanRad(pan), floor |-> FALSE],
          r_to_l |-> [gain_db |-> gain_db, fn |-> "cos", angle |-> PanRad(pan) + PanOne,
                      floor |-> TRUE],
          r_to_r |-> [gain_db |-> gain_db, fn |-> "sin", angle |-> PanRad(pan), floor |-> FALSE],
          l_to_r |-> [gain_db |-> gain_db, fn |-> "sin", angle |-> PanRad(pan) - PanOne,
                      floor |-> TRUE]])
    /\ gpc' = "done"
    /\ UNCHANGED <<gain_db, pan>>
    /\ UNCHANGED notGainVars

\* No gain factors are being computed.
GainIdle ==
    /\ gain_db = 0
    /\ pan = 0
    /\ pan_rad = 0
    /\ factors = None
    /\ gpc = "start"

(***************************************************************************)
(* Mixer::mix_stereo                                                       *)
(***************************************************************************)
\* Most tracks of a mixer and most frames of a track.
MaxMixTracks == 2
MaxFrames == 2

\* The (left, right) sample pairs of the rendered tracks.
Frames == {<<Fin(1), Fin(2)>>, <<Fin(-1), Fin(0)>>}

\* Gain factors MixerGainFactors::new can return: for a pan of 0, for a pan
\* left of the centre with a gain above 0 dB (with cross-feed), and for a gain
\* so high that 10^(gain_db / 20) is infinite in f32.
GainFactors ==
    {[l_to_l |-> Fin(1), l_to_r |-> Fin(0), r_to_l |-> Fin(0), r_to_r |-> Fin(1)],
     [l_to_l |-> Fin(3), l_to_r |-> Fin(0), r_to_l |-> Fin(2), r_to_r |-> Fin(1)],
     [l_to_l |-> Inf(1), l_to_r |-> NaN, r_to_l |-> NaN, r_to_r |-> Inf(1)]}

\* The MixerTracks the renderers can hand over: both buffers of one length.
MixerTracks ==
    {[left |-> [k \in 1..Len(fs) |-> fs[k][1]], right |-> [k \in 1..Len(fs) |-> fs[k][2]],
      gainfactors |-> gf] : fs \in SeqsUpTo(Frames, MaxFrames), gf \in GainFactors}

\* A read that wraps around at the end of the buffer.
SampleWrapped(buf, idx) ==
    IF Len(buf) = 0 THEN Fin(0) ELSE buf[(idx % Len(buf)) + 1]

\* buf.get(idx).copied().unwrap_or(0.0), idx counting from 0.
Sample(buf, idx) == IF idx < Len(buf) THEN buf[idx + 1] ELSE Fin(0)

\* self.tracks.iter().map(|t| t.left.len()).max(): None for no tracks.
RECURSIVE MaxLeftLen(_, _)
MaxLeftLen(ts, k) ==
    IF k > Len(ts) THEN None
    ELSE LET rest == MaxLeftLen(ts, k + 1)
         IN IF IsSome(rest) /\ Unwrap(rest) > Len(ts[k].left) THEN rest
            ELSE Some(Len(ts[k].left))

\* The inner loop over the tracks, from track k on: the accumulators after it.
RECURSIVE Accumulate(_, _, _, _)
Accumulate(ts, idx, acc, k) ==
    IF k > Len(ts) THEN acc
    ELSE LET gf == ts[k].gainfactors
             il == Sample(ts[k].left, idx)
             ir == Sample(ts[k].right, idx)
         IN Accumulate(ts, idx,
                [sl |-> FAdd(acc.sl, FAdd(FMul(gf.l_to_l, il), FMul(gf.r_to_l, ir))),
                 sr |-> FAdd(acc.sr, FAdd(FMul(gf.l_to_r, il), FMul(gf.r_to_r, ir)))],
                k + 1)

\* mix_stereo, to the first frame.
MixBegin ==
    /\ mpc = "start"
    /\ LET longest == MaxLeftLen(m_tracks, 1)
       IN IF IsSome(longest)
          THEN /\ m_sc' = Unwrap(longest)
               /\ m_out' = << >>
               /\ m_pbar' = [m_pbar EXCEPT !.length = Unwrap(longest)]
               /\ m_si' = 0
               /\ mpc' = "loop"
          ELSE \* unwrap() of None
               /\ mpc' = "panic"
               /\ UNCHANGED <<m_sc, m_out, m_pbar, m_si>>
    /\ UNCHANGED m_tracks
    /\ UNCHANGED notMixVars

\* One frame of the output: the loop over the tracks and the two pushes.
MixFrame ==
    /\ mpc = "loop"
    /\ m_si < m_sc
    /\ LET acc == Accumulate(m_tracks, m_si, [sl |-> Fin(0), sr |-> Fin(0)], 1)
       IN m_out' = Append(Append(m_out, acc.sl), acc.sr)
    /\ m_pbar' = [m_pbar EXCEPT !.position = @ + 1]
    /\ m_si' = m_si + 1
    /\ UNCHANGED <<m_tracks, m_sc, mpc>>
    /\ UNCHANGED notMixVars

\* The loop is over: mix_stereo returns out.
MixEnd ==
    /\ mpc = "loop"
    /\ m_si >= m_sc
    /\ m_pbar' = [m_pbar EXCEPT !.finished = TRUE]
    /\ mpc' = "done"
    /\ UNCHANGED <<m_tracks, m_sc, m_out, m_si>>
    /\ UNCHANGED notMixVars

\* A mixer that has not started, over its own variables.
MixStart ==
    /\ m_sc = 0
    /\ m_out = << >>
    /\ m_si = 0
    /\ m_pbar = [length |-> 0, position |-> 0, finished |-> FALSE]
    /\ mpc = "start"

\* The mixer of a specification that does not mix.
MixIdle ==
    /\ m_tracks = << >>
    /\ MixStart

(***************************************************************************)
(* midisynth and main: the pipeline.  The sequencer, a renderer and the    *)
(* mixer are taken here by their outcomes only.                            *)
(***************************************************************************)
\* Most tracks of the MIDI file and most settings of an instrument.
MaxPipeTracks == 2
MaxSettings == 2

\* The names a track can have: none, one the configuration may list and one
\* it may list as well.
PipeNames == {"a", "b"}
PipeTrackNames == {None} \cup {Some(n) : n \in PipeNames}

\* Instrument settings as from_toml sees them: with bank and preset, without
\* bank, without preset.
Settings ==
    {[bank |-> Some(0), preset |-> Some(0)],
     [bank |-> None, preset |-> Some(0)],
     [bank |-> Some(0), preset |-> None]}

\* The "instr" tables: each name is absent (or not an array), or an array.
InstrTables ==
    {[n \in PipeNames |-> IF n = "a" THEN a ELSE b] :
        a \in {None} \cup {Some(ss) : ss \in SeqsUpTo(Settings, MaxSettings)},
        b \in {None, Some(<< [bank |-> Some(0), preset |-> Some(0)] >>)}}

\* A from_toml that asks for the bank only.
FromTomlBankOnly(setting) ==
    IF ~IsSome(setting.bank) THEN Some("Missing bank value") ELSE None

\* InstrumentSetting::from_toml: the error message, or none.
FromToml(setting) ==
    IF ~IsSome(setting.bank) THEN Some("Missing bank value")
    ELSE IF ~IsSome(setting.preset) THEN Some("Missing preset value")
    ELSE None

\* The ways the steps before sequencing can fail, with their messages.
ConfigErrors ==
    {"Reading configuration file failed", "Parsing configuration file failed",
     "Invalid configuration: No instruments specified"}
SoundfontErrors ==
    {"Invalid configuration: No soundfont specified",
     "Opening soundfont file failed", "Loading soundfont file failed"}
MidiErrors == {"Reading MIDI file failed", "Loading MIDI file failed"}

\* return Err(msg)
ReturnErr(msg) ==
    /\ main_pc' = "err"
    /\ error' = Some(msg)

\* A panic of the main thread, in the call named.
Panic(site) ==
    /\ main_pc' = "panic"
    /\ panic_in' = Some(site)

\* Read and parse the configuration, take its "instr" table.
ReadConfig ==
    /\ main_pc = "config"
    /\ \/ \E msg \in ConfigErrors : ReturnErr(msg) /\ UNCHANGED instr
       \/ /\ instr' \in InstrTables
          /\ main_pc' = "soundfont"
          /\ UNCHANGED error
    /\ UNCHANGED <<p_tracks, tidx, sidx, threads, mtracks, warnings, mixed, written, reported, panic_in>>
    /\ UNCHANGED notPipeVars

\* Open and load the sound font.
LoadSoundfont ==
    /\ main_pc = "soundfont"
    /\ \/ \E msg \in SoundfontErrors : ReturnErr(msg)
       \/ main_pc' = "midi" /\ UNCHANGED error
    /\ UNCHANGED <<instr, p_tracks, tidx, sidx, threads, mtracks, warnings, mixed, written, reported, panic_in>>
    /\ UNCHANGED notPipeVars

\* Read and parse the MIDI file.
LoadMidi ==
    /\ main_pc = "midi"
    /\ \/ \E msg \in MidiErrors : ReturnErr(msg)
       \/ main_pc' = "sequence" /\ UNCHANGED error
    /\ UNCHANGED <<instr, p_tracks, tidx, sidx, threads, mtracks, warnings, mixed, written, reported, panic_in>>
    /\ UNCHANGED notPipeVars

\* seq.play_all(...): it returns the tracks, or panics (todo!() for a timing
\* that is not metrical, a division by zero ticks per beat, a tick overflow
\* in a build with overflow checks).
Sequence ==
    /\ main_pc = "sequence"
    /\ \E t \in Timings :
          IF t.kind # "Metrical"
          THEN Panic("play_all") /\ UNCHANGED p_tracks
          ELSE \/ Panic("play_all") /\ UNCHANGED p_tracks
               \/ /\ p_tracks' \in SeqsUpTo(PipeTrackNames, MaxPipeTracks)
                  /\ main_pc' = "spawn"
                  /\ UNCHANGED panic_in
    /\ UNCHANGED <<instr, tidx, sidx, threads, mtracks, warnings, error, mixed, written, reported>>
    /\ UNCHANGED notPipeVars

\* instr.get(track_name).and_then(|v| v.as_array()) for the track at tidx.
SettingsOf(i) ==
    IF IsSome(p_tracks[i + 1]) THEN instr[Unwrap(p_tracks[i + 1])] ELSE None

\* The track at tidx has no name, or no settings: on to the next track, with
\* a warning for a named track that is not the first.
SkipTrack ==
    /\ main_pc = "spawn"
    /\ tidx < Len(p_tracks)
    /\ ~IsSome(SettingsOf(tidx))
    /\ warnings' = IF IsSome(p_tracks[tidx + 1]) /\ tidx # 0
                   THEN Append(warnings, [track |-> tidx, msg |-> "No instruments defined"])
                   ELSE warnings
    /\ tidx' = tidx + 1
    /\ UNCHANGED <<main_pc, instr, p_tracks, sidx, threads, mtracks, error, mixed, written, reported, panic_in>>
    /\ UNCHANGED notPipeVars

\* The setting at sidx is not a valid one: a warning, on to the next setting.
SkipSetting ==
    /\ main_pc = "spawn"
    /\ tidx < Len(p_tracks)
    /\ IsSome(SettingsOf(tidx))
    /\ sidx < Len(Unwrap(SettingsOf(tidx)))
    /\ LET msg == FromToml(Unwrap(SettingsOf(tidx))[sidx + 1])
       IN /\ IsSome(msg)
          /\ warnings' = Append(warnings, [track |-> tidx, msg |-> Unwrap(msg)])
    /\ sidx' = sidx + 1
    /\ UNCHANGED <<main_pc, instr, p_tracks, tidx, threads, mtracks, error, mixed, written, reported, panic_in>>
    /\ UNCHANGED notPipeVars

\* The setting at sidx is a valid one: a renderer for it is spawned, and its
\* handle pushed.
SpawnWorker ==
    /\ main_pc = "spawn"
    /\ tidx < Len(p_tracks)
    /\ IsSome(SettingsOf(tidx))
    /\ sidx < Len(Unwrap(SettingsOf(tidx)))
    /\ ~IsSome(FromToml(Unwrap(SettingsOf(tidx))[sidx + 1]))
    /\ threads' = Append(threads, [track |-> tidx, setting |-> sidx, status |-> "running"])
    /\ sidx' = sidx + 1
    /\ UNCHANGED <<main_pc, instr, p_tracks, tidx, mtracks, warnings, error, mixed, written, reported, panic_in>>
    /\ UNCHANGED notPipeVars

\* The settings of the track at tidx are through: on to the next track.
TrackDone ==
    /\ main_pc = "spawn"
    /\ tidx < Len(p_tracks)
    /\ IsSome(SettingsOf(tidx))
    /\ sidx >= Len(Unwrap(SettingsOf(tidx)))
    /\ tidx' = tidx + 1
    /\ sidx' = 0
    /\ UNCHANGED <<main_pc, instr, p_tracks, threads, mtracks, warnings, error, mixed, written, reported, panic_in>>
    /\ UNCHANGED notPipeVars

\* The tracks are through.
SpawnDone ==
    /\ main_pc = "spawn"
    /\ tidx >= Len(p_tracks)
    /\ main_pc' = "check"
    /\ UNCHANGED <<instr, p_tracks, tidx, sidx, threads, mtracks, warnings, error, mixed, written, reported, panic_in>>
    /\ UNCHANGED notPipeVars

\* A check that never finds the handles empty.
NeverEmpty(ts) == FALSE

\* threads.len() == 0
NoThreads(ts) == Len(ts) = 0

\* if threads.len() == 0 { return Err("No music was generated".into()); }
CheckThreads ==
    /\ main_pc = "check"
    /\ IF NoThreads(threads)
       THEN ReturnErr("No music was generated")
       ELSE main_pc' = "join" /\ UNCHANGED error
    /\ UNCHANGED <<instr, p_tracks, tidx, sidx, threads, mtracks, warnings, mixed, written, reported, panic_in>>
    /\ UNCHANGED notPipeVars

\* The process is running: main has neither returned nor panicked.
Running == main_pc \notin {"ok", "err", "panic"}

\* The worker's closure returns its MixerTrack.
WorkerFinish(w) ==
    /\ Running
    /\ threads[w].status = "running"
    /\ threads' = [threads EXCEPT ![w].status = "finished"]
    /\ UNCHANGED <<main_pc, instr, p_tracks, tidx, sidx, mtracks, warnings, error, mixed, written, reported, panic_in>>
    /\ UNCHANGED notPipeVars

\* The worker's closure panics (in render).
WorkerPanic(w) ==
    /\ Running
    /\ threads[w].status = "running"
    /\ threads' = [threads EXCEPT ![w].status = "panicked"]
    /\ UNCHANGED <<main_pc, instr, p_tracks, tidx, sidx, mtracks, warnings, error, mixed, written, reported, panic_in>>
    /\ UNCHANGED notPipeVars

WorkerStep == \E w \in 1..Len(threads) : WorkerFinish(w) \/ WorkerPanic(w)

\* A join that returns whatever the thread is doing.
JoinReturnsAtOnce(status) == TRUE

\* JoinHandle::join returns once the thread is no longer running.
JoinReturns(status) == status # "running"

\* t.join().unwrap() for the next handle, in the order of the spawns.
Join ==
    /\ main_pc = "join"
    /\ mtracks < Len(threads)
    /\ JoinReturns(threads[mtracks + 1].status)
    /\ IF threads[mtracks + 1].status = "panicked"
       THEN Panic("join") /\ UNCHANGED mtracks
       ELSE mtracks' = mtracks + 1 /\ UNCHANGED <<main_pc, panic_in>>
    /\ UNCHANGED <<instr, p_tracks, tidx, sidx, threads, warnings, error, mixed, written, reported>>
    /\ UNCHANGED notPipeVars

\* Every handle is joined: mtracks is collected.
JoinDone ==
    /\ main_pc = "join"
    /\ mtracks >= Len(threads)
    /\ main_pc' = "mix"
    /\ UNCHANGED <<instr, p_tracks, tidx, sidx, threads, mtracks, warnings, error, mixed, written, reported, panic_in>>
    /\ UNCHANGED notPipeVars

\* mixer.mix_stereo(pbar): it panics when there is no track.
Mix ==
    /\ main_pc = "mix"
    /\ mixed' = TRUE
    /\ IF mtracks = 0
       THEN Panic("mix_stereo")
       ELSE main_pc' = "write" /\ UNCHANGED panic_in
    /\ UNCHANGED <<instr, p_tracks, tidx, sidx, threads, mtracks, warnings, error, written, reported>>
    /\ UNCHANGED notPipeVars

\* wavers::write(...) and midisynth's return.
WriteWav ==
    /\ main_pc = "write"
    /\ written' = TRUE
    /\ \/ ReturnErr("Writing output WAV file failed")
       \/ main_pc' = "ok" /\ UNCHANGED error
    /\ UNCHANGED <<instr, p_tracks, tidx, sidx, threads, mtracks, warnings, mixed, reported, panic_in>>
    /\ UNCHANGED notPipeVars

\* main: if let Err(msg) = midisynth() { println!(...) }
MainReport ==
    /\ main_pc = "err"
    /\ ~reported
    /\ reported' = TRUE
    /\ UNCHANGED <<main_pc, instr, p_tracks, tidx, sidx, threads, mtracks, warnings, error, mixed, written, panic_in>>
    /\ UNCHANGED notPipeVars

\* A pipeline that has not started, over its own variables.
PipeStart ==
    /\ main_pc = "config"
    /\ instr = [n \in PipeNames |-> None]
    /\ p_tracks = << >>
    /\ tidx = 0
    /\ sidx = 0
    /\ threads = << >>
    /\ mtracks = 0
    /\ warnings = << >>
    /\ error = None
    /\ mixed = FALSE
    /\ written = FALSE
    /\ reported = FALSE
    /\ panic_in = None

\* The pipeline of a specification of one component alone.
PipeIdle == PipeStart

\* The per-track event counts of a file of n tracks: every way to share at
\* most MaxEvents events.
RECURSIVE SumTo(_, _)
SumTo(f, n) == IF n = 0 THEN 0 ELSE f[n - 1] + SumTo(f, n - 1)

CountVectors(n) == {c \in [0..(n - 1) -> 0..MaxEvents] : SumTo(c, n) <= MaxEvents}

\* The state when play_all is called: every track's cursor created, its first
\* event (if it has one) already pulled.
InitSeq ==
    /\ overflow_checks = None
    /\ timing \in Timings
    /\ \E n \in TrackCounts : \E c \in CountVectors(n) :
          \E first \in [0..(n - 1) -> {None} \cup {Some(e) : e \in TrackEvents}] :
             /\ \A i \in 0..(n - 1) : first[i] \in IterNext([iter |-> c[i]])
             /\ seq = [i \in 0..(n - 1) |-> Create(c[i], first[i])]
    /\ pc = "start"
    /\ ticks_per_beat = 0
    /\ tempo = 0
    /\ base_time = 0
    /\ base_ticks = 0
    /\ tracks = << >>
    /\ pbar = [length |-> 0, position |-> 0, finished |-> FALSE]
    /\ out = << >>
    /\ play_panic = None
    /\ RenderIdle
    /\ MixIdle
    /\ PipeIdle
    /\ GainIdle

NextSeq == PlayBegin \/ PlayStep \/ PlayEnd

Spec == InitSeq /\ [][NextSeq]_vars

(***************************************************************************)
(* Claims about the sequencer, under Spec.                                 *)
(***************************************************************************)
\* The ticks next() has returned so far never step down.
EmittedNonDecreasing ==
    \A k \in 1..(Len(out) - 1) : out[k].ticks <= out[k + 1].ticks

\* No cursor's tick steps down in this step.
CursorNonDecreasing ==
    \A i \in DOMAIN seq : seq'[i].ticks >= seq[i].ticks

\* C1: the absolute ticks returned by successive next() calls are
\* non-decreasing, and the tick of a track cursor never decreases across
\* advance() calls.
C1_TicksNonDecreasing == [][EmittedNonDecreasing' /\ CursorNonDecreasing]_vars

\* The cursors that hold a pending event, and the least tick among them.
Holders == {i \in DOMAIN seq : IsSome(seq[i].next)}
AtMinTick == {i \in Holders : \A j \in Holders : seq[i].ticks <= seq[j].ticks}
LowestAtMinTick == CHOOSE i \in AtMinTick : \A j \in AtMinTick : i <= j

\* This step is a next() that returned the event the cursor idx held.
Returned(idx) ==
    /\ Len(out') = Len(out) + 1
    /\ out'[Len(out')].idx = idx
    /\ out'[Len(out')].event = Unwrap(seq[idx].next)
    /\ out'[Len(out')].ticks = seq[idx].ticks

\* C2: whenever two or more cursors hold their next event at the same minimum
\* tick, the next() call that follows returns the event of the cursor with
\* the lowest track index (steps that end in a panic aside).
C2_TieBreakLowestIndex ==
    [][(pc = "loop" /\ pc' # "panic" /\ Cardinality(AtMinTick) >= 2)
          => Returned(LowestAtMinTick)]_vars

\* The tempo change in force for the k-th returned event: the last one
\* returned before it, 0 if there is none.
RECURSIVE LastTempoBefore(_)
LastTempoBefore(k) ==
    IF k <= 1 THEN 0
    ELSE IF out[k - 1].event.kind = "Tempo" THEN k - 1 ELSE LastTempoBefore(k - 1)

\* x * t / q, rounded towards zero, for any integer x.
SignedMulDiv(x, t, q) == IF x >= 0 THEN MulDiv(x, t, q) ELSE 0 - MulDiv(0 - x, t, q)

\* The time the claim gives the k-th returned event: from the anchor and the
\* tempo of the last tempo change before it, or from (0, 0) and 500000.
ClaimedTime(k) ==
    LET j == LastTempoBefore(k)
        anchor_tick == IF j = 0 THEN 0 ELSE out[j].ticks
        anchor_time == IF j = 0 THEN 0 ELSE out[j].time
        tempo_in_force == IF j = 0 THEN 500000 ELSE out[j].event.val[1]
    IN anchor_time + SignedMulDiv(out[k].ticks - anchor_tick, tempo_in_force, ticks_per_beat)

\* C3: every merged event gets time = anchor_time + (tick - anchor_tick) *
\* tempo / ticks_per_quarter, the anchor and the tempo being those the last
\* tempo change before it set (or tick 0, time 0, tempo 500000).
C3_TimeFromAnchor ==
    \A k \in 1..Len(out) : out[k].time = ClaimedTime(k)

\* C4: after play_all the event times of every Player Track are
\* non-decreasing in list order.
C4_PlayerTrackTimesSorted ==
    pc = "done" =>
        \A i \in DOMAIN tracks :
            \A k \in 1..(Len(tracks[i].events) - 1) :
                tracks[i].events[k].time <= tracks[i].events[k + 1].time

(***************************************************************************)
(* The renderer's specification.                                           *)
(***************************************************************************)
\* The sequencer of a specification that does not sequence.
SeqIdle ==
    /\ overflow_checks = None
    /\ timing = [kind |-> "Metrical", tpb |-> 480]
    /\ seq = << >>
    /\ pc = "start"
    /\ ticks_per_beat = 0
    /\ tempo = 0
    /\ base_time = 0
    /\ base_ticks = 0
    /\ tracks = << >>
    /\ pbar = [length |-> 0, position |-> 0, finished |-> FALSE]
    /\ out = << >>
    /\ play_panic = None

\* A renderer as midisynth builds it, for any track, instrument and padding.
InitRender ==
    /\ r_track \in {[name |-> Some(<<97>>), length |-> l, events |-> es] :
                       l \in TrackLengths, es \in SeqsUpTo(PlayerEvents, MaxNotes)}
    /\ r_instr \in {[bank |-> 0, preset |-> 0, transpose |-> tr] : tr \in Transposes}
    /\ r_padding \in Paddings
    /\ synth \in {[sample_rate |-> r, block_size |-> b, msgs |-> << >>, notes |-> << >>,
                   blocks |-> 0] : r \in SampleRates, b \in BlockSizes}
    /\ RenderStart
    /\ SeqIdle
    /\ MixIdle
    /\ PipeIdle
    /\ GainIdle

NextRender == RenderBegin \/ DispatchNote \/ RenderBlock \/ RenderEnd

SpecRender == InitRender /\ [][NextRender]_vars

(***************************************************************************)
(* Claims about the renderer, under SpecRender.                            *)
(***************************************************************************)
\* (track length + padding) * sample_rate: the samples wanted, times 10^6.
WantedMicroSamples == (r_track.length + r_padding) * synth.sample_rate

\* C5, as claimed: both buffers have the length that is the smallest multiple
\* of the block size >= (track length + padding) * sample_rate / 1_000_000,
\* so that the buffer covers track length plus padding.
C5_BufferCoversLengthPlusPadding ==
    rpc # "start" =>
        /\ left = sc /\ right = sc
        /\ sc % synth.block_size = 0
        /\ sc * 1000000 >= WantedMicroSamples
        /\ (sc - synth.block_size) * 1000000 < WantedMicroSamples

\* C5, amended: both buffers have the length that is the smallest multiple of
\* the block size >= the integer quotient (track length + padding) *
\* sample_rate / 1_000_000, so that the buffer covers track length plus
\* padding less at most a fraction of one sample.
C5_BufferIsLeastMultipleOfFloor ==
    rpc # "start" =>
        /\ left = sc /\ right = sc
        /\ sc % synth.block_size = 0
        /\ (sc + 1) * 1000000 > WantedMicroSamples
        /\ (sc - synth.block_size + 1) * 1000000 <= WantedMicroSamples

\* A render whose buffers end before track length plus padding.
C5_Witness ==
    /\ rpc = "done"
    /\ sc > 0
    /\ sc * 1000000 < WantedMicroSamples

\* The notes dispatched so far are the first events of the track, in order.
Dispatched == 1..Len(synth.notes)

\* The block at sample offset s starts at or before time t: s * 10^6 / sr <= t.
StartsAtOrBefore(s, t) == s * 1000000 < (t + 1) * synth.sample_rate

\* Time t is at or before the start of the block at offset s.
DueAt(t, s) == t * synth.sample_rate <= s * 1000000

\* C6, as claimed: a note is never dispatched after the block whose sample
\* range covers its time has been rendered (the block about to be rendered
\* when it is dispatched starts at or before the note's time), and every note
\* of time 0 is dispatched before the very first block.
C6_NeverDispatchedLate ==
    /\ \A k \in Dispatched : StartsAtOrBefore(synth.notes[k].at, r_track.events[k].time)
    /\ synth.blocks >= 1 =>
          \A k \in 1..Len(r_track.events) :
              r_track.events[k].time = 0 => (k \in Dispatched /\ synth.notes[k].at = 0)

\* C6, amended: a note is never dispatched before its time; it is dispatched
\* right before the first block whose start time is at or after its time and
\* the times of the notes listed before it; the notes dispatched before the
\* very first block are exactly the leading notes of time 0.
C6_DispatchedAtFirstBlockDue ==
    /\ Len(synth.notes) = (IF rpc = "start" THEN 0 ELSE it - 1)
    /\ \A k \in Dispatched :
          /\ DueAt(r_track.events[k].time, synth.notes[k].at)
          /\ synth.notes[k].at > 0 =>
                \E j \in 1..k :
                    ~DueAt(r_track.events[j].time, synth.notes[k].at - synth.block_size)
    /\ synth.blocks >= 1 =>
          \A k \in 1..Len(r_track.events) :
              (\A j \in 1..k : r_track.events[j].time = 0)
                  <=> (k \in Dispatched /\ synth.notes[k].at = 0)

\* A note whose time lies strictly inside a block, dispatched after that
\* block was rendered.
C6_Witness ==
    /\ rpc = "done"
    /\ \E k \in Dispatched :
          LET at == synth.notes[k].at
              t == r_track.events[k].time
          IN /\ at > 0
             /\ ~DueAt(t, at - synth.block_size)
             /\ ~StartsAtOrBefore(at, t)

\* C7, as claimed: every note is dispatched with its number shifted by the
\* transpose, saturating at the bounds of the note range (0 and 255 of u8);
\* no transposition makes the render fail.
C7_TransposeSaturates ==
    /\ rpc # "panic"
    /\ \A k \in Dispatched :
          LET n == r_track.events[k].note + UnwrapOr0(r_instr.transpose)
          IN synth.notes[k].key = (IF n < 0 THEN 0 ELSE IF n > 255 THEN 255 ELSE n)

\* C7, amended: every dispatched note has its number shifted by exactly the
\* transpose, which is then in 0..254 (neither wrapped nor clamped); a note
\* whose shifted number would be negative is not dispatched: render panics.
C7_TransposeExactOrPanic ==
    /\ \A k \in Dispatched :
          /\ synth.notes[k].key = r_track.events[k].note + UnwrapOr0(r_instr.transpose)
          /\ synth.notes[k].key \in 0..254
    /\ rpc = "panic" =>
          /\ it <= Len(r_track.events)
          /\ r_track.events[it].note + UnwrapOr0(r_instr.transpose) < 0

\* A due note whose shifted number is negative has made render panic, after
\* another note was dispatched shifted.
C7_Witness ==
    /\ rpc = "panic"
    /\ r_track.events[it].note + transpose < 0
    /\ \E k \in Dispatched : synth.notes[k].key # r_track.events[k].note

(***************************************************************************)
(* The mixer's specification.                                              *)
(***************************************************************************)
\* A mixer as midisynth builds it: at least one track (midisynth returns
\* before mixing when there is none).
InitMix ==
    /\ m_tracks \in SeqsUpTo(MixerTracks, MaxMixTracks) \ {<< >>}
    /\ MixStart
    /\ SeqIdle
    /\ RenderIdle
    /\ PipeIdle
    /\ GainIdle

NextMix == MixBegin \/ MixFrame \/ MixEnd

SpecMix == InitMix /\ [][NextMix]_vars

(***************************************************************************)
(* Claims about the mixer, under SpecMix.                                  *)
(***************************************************************************)
\* The greatest track length, counted apart from mix_stereo.
LongestTrack ==
    CHOOSE n \in {Len(m_tracks[k].left) : k \in 1..Len(m_tracks)} :
        \A k \in 1..Len(m_tracks) : Len(m_tracks[k].left) <= n

\* The sum, in track order from track k on, of what the tracks that are long
\* enough to have frame idx put into it: the mix when every shorter track
\* contributes exactly 0.
RECURSIVE MixOfCovering(_, _, _)
MixOfCovering(idx, acc, k) ==
    IF k > Len(m_tracks) THEN acc
    ELSE LET t == m_tracks[k]
             gf == t.gainfactors
         IN IF idx >= Len(t.left) THEN MixOfCovering(idx, acc, k + 1)
            ELSE MixOfCovering(idx,
                    [sl |-> FAdd(acc.sl, FAdd(FMul(gf.l_to_l, t.left[idx + 1]),
                                              FMul(gf.r_to_l, t.right[idx + 1]))),
                     sr |-> FAdd(acc.sr, FAdd(FMul(gf.l_to_r, t.left[idx + 1]),
                                              FMul(gf.r_to_r, t.right[idx + 1])))],
                    k + 1)

\* Frame idx of the output is the mix of the tracks that cover it.
FrameIsMixOfCovering(idx) ==
    LET ref == MixOfCovering(idx, [sl |-> Fin(0), sr |-> Fin(0)], 1)
    IN /\ m_out[2 * idx + 1] = ref.sl
       /\ m_out[2 * idx + 2] = ref.sr

IsFinite(gf) ==
    /\ gf.l_to_l.cls = "finite" /\ gf.l_to_r.cls = "finite"
    /\ gf.r_to_l.cls = "finite" /\ gf.r_to_r.cls = "finite"

\* C8, as claimed: the output has exactly max-track-length frames, left then
\* right, and a track shorter than the output contributes exactly 0 to both
\* channels of every frame at or beyond its own length.
C8_ShorterTracksContributeZero ==
    /\ mpc = "done" => Len(m_out) = 2 * LongestTrack
    /\ \A idx \in 0..(Len(m_out) \div 2 - 1) : FrameIsMixOfCovering(idx)

\* C8, amended: the output has exactly max-track-length frames, left then
\* right, and a track shorter than the output whose gain factors are finite
\* contributes exactly 0 to both channels of every frame at or beyond its own
\* length.
C8_FiniteShorterTracksContributeZero ==
    /\ mpc = "done" => Len(m_out) = 2 * LongestTrack
    /\ \A idx \in 0..(Len(m_out) \div 2 - 1) :
          (\A k \in 1..Len(m_tracks) :
              idx >= Len(m_tracks[k].left) => IsFinite(m_tracks[k].gainfactors))
            => FrameIsMixOfCovering(idx)

\* A mix of a longer track and a shorter one with cross-feed, finished: the
\* last frame is that of the longer track alone.
C8_Witness ==
    /\ mpc = "done"
    /\ Len(m_tracks) = 2
    /\ Len(m_tracks[1].left) = 1
    /\ Len(m_tracks[2].left) = 2
    /\ m_tracks[1].gainfactors.r_to_l = Fin(2)
    /\ m_tracks[1].right[1] = Fin(2)
    /\ m_tracks[2].gainfactors.l_to_l = Fin(1)
    /\ m_out[3] = m_tracks[2].left[2]
    /\ m_out[3] # Fin(0)

(***************************************************************************)
(* The pipeline's specification.                                           *)
(***************************************************************************)
InitPipe ==
    /\ PipeStart
    /\ SeqIdle
    /\ RenderIdle
    /\ MixIdle
    /\ GainIdle

NextPipe ==
    \/ ReadConfig
    \/ LoadSoundfont
    \/ LoadMidi
    \/ Sequence
    \/ SkipTrack
    \/ SkipSetting
    \/ SpawnWorker
    \/ TrackDone
    \/ SpawnDone
    \/ CheckThreads
    \/ WorkerStep
    \/ Join
    \/ JoinDone
    \/ Mix
    \/ WriteWav
    \/ MainReport

SpecPipe == InitPipe /\ [][NextPipe]_vars

(***************************************************************************)
(* Claims about the pipeline, under SpecPipe.                              *)
(***************************************************************************)
\* The (track, setting) pairs of a named track and a valid setting of its
\* instrument, counted apart from the spawn loop.
MatchedPairs ==
    {<<i, j>> \in (0..(Len(p_tracks) - 1)) \X (0..(MaxSettings + 1)) :
        /\ IsSome(SettingsOf(i))
        /\ j < Len(Unwrap(SettingsOf(i)))
        /\ ~IsSome(FromToml(Unwrap(SettingsOf(i))[j + 1]))}

\* play_all has returned: midisynth is at the spawn loop or past it.
Sequenced ==
    /\ main_pc \notin {"config", "soundfont", "midi", "sequence"}
    /\ main_pc = "err" =>
          error \notin {Some(m) : m \in ConfigErrors \cup SoundfontErrors \cup MidiErrors}
    /\ main_pc = "panic" => panic_in # Some("play_all")

\* C9: when the configuration matches no instrument setting to any track, no
\* worker is ever created, the run can only end in the error "No music was
\* generated", and neither the mixer nor the writer is ever called.
C9_NoMatchIsZeroOutputError ==
    (Sequenced /\ MatchedPairs = {})
      => /\ threads = << >>
         /\ ~mixed /\ ~written
         /\ main_pc \in {"spawn", "check", "err"}
         /\ main_pc = "err" => error = Some("No music was generated")

\* A run with a named track and a setting without a bank, and so with no
\* matched pair, that has ended in the error, reported by main.
C9_Witness ==
    /\ main_pc = "err"
    /\ reported
    /\ error = Some("No music was generated")
    /\ MatchedPairs = {}
    /\ Len(p_tracks) = 2
    /\ p_tracks[2] = Some("a")
    /\ IsSome(instr["a"]) /\ Len(Unwrap(instr["a"])) = 1
    /\ Len(warnings) = 1

\* C10: mixing starts only when every spawned worker has finished; once a
\* worker has failed there is no mixing and no writing, the run cannot end
\* but in the panic of a join, and that join is the failed worker's.
C10_JoinBarrier ==
    /\ mixed => \A w \in 1..Len(threads) : threads[w].status = "finished"
    /\ (\E w \in 1..Len(threads) : threads[w].status = "panicked")
          => /\ ~mixed /\ ~written
             /\ main_pc \in {"spawn", "check", "join", "panic"}
             /\ main_pc = "panic" => panic_in = Some("join")
    /\ panic_in = Some("join") => threads[mtracks + 1].status = "panicked"
    /\ \A w \in 1..mtracks : threads[w].status = "finished"

\* Three workers; the second has failed while the third is still running, and
\* the main thread, having joined the first, has panicked in the second join.
C10_Witness ==
    /\ Len(threads) = 3
    /\ threads[1].status = "finished"
    /\ threads[2].status = "panicked"
    /\ threads[3].status = "running"
    /\ mtracks = 1
    /\ main_pc = "panic"
    /\ panic_in = Some("join")
    /\ ~mixed /\ ~written

\* C11: every fatal error reaches main as an error value and is reported
\* there: a run that does not end well ends in Err with its message, never in
\* a panic of the main thread.
C11_FatalErrorsReachMain ==
    /\ main_pc # "panic"
    /\ main_pc = "err" => IsSome(error)
    /\ reported => main_pc = "err"

\* The settings the configuration gives track i (none for an unnamed track
\* or a name the configuration does not have), and whether a setting has both
\* a bank and a preset.
SettingsAt(i) ==
    IF IsSome(p_tracks[i + 1]) /\ IsSome(instr[Unwrap(p_tracks[i + 1])])
    THEN Unwrap(instr[Unwrap(p_tracks[i + 1])])
    ELSE << >>
IsValid(s) == IsSome(s.bank) /\ IsSome(s.preset)

\* The number of settings of track i the spawn loop is past.
PastSettings(i) ==
    IF i < tidx THEN Len(SettingsAt(i)) ELSE IF i = tidx THEN sidx ELSE 0

\* The (track, setting) pairs the spawn loop is past whose setting is valid
\* (ok = TRUE), is not valid (ok = FALSE).
PastPairs(ok) ==
    UNION {{<<i, j>> : j \in {k \in 0..(PastSettings(i) - 1) :
                                  IsValid(SettingsAt(i)[k + 1]) = ok}} :
           i \in 0..(Len(p_tracks) - 1)}

\* The named tracks, other than the first, that the configuration gives no
\* settings and that the spawn loop is past.
PastUnmatchedTracks ==
    {i \in 1..(tidx - 1) :
        IsSome(p_tracks[i + 1]) /\ ~IsSome(instr[Unwrap(p_tracks[i + 1])])}

\* C12: the spawn loop goes through every track and every setting: so far
\* it has spawned exactly one worker for each valid pair it is past, in order,
\* and printed exactly one warning for each setting without bank or preset and
\* for each named track without settings that is not the first; once it is
\* over it is past every track.
C12_OneWorkerPerValidPair ==
    LET valid == PastPairs(TRUE)
        invalid == PastPairs(FALSE)
        unmatched == PastUnmatchedTracks
    IN
    /\ Len(threads) = Cardinality(valid)
    /\ \A p \in valid :
          \E w \in 1..Len(threads) : threads[w].track = p[1] /\ threads[w].setting = p[2]
    /\ \A v, w \in 1..Len(threads) : v < w =>
          \/ threads[v].track < threads[w].track
          \/ threads[v].track = threads[w].track /\ threads[v].setting < threads[w].setting
    /\ Len(warnings) = Cardinality(invalid) + Cardinality(unmatched)
    /\ \A p \in invalid :
          \E k \in 1..Len(warnings) :
              /\ warnings[k].track = p[1]
              /\ warnings[k].msg = (IF IsSome(SettingsAt(p[1])[p[2] + 1].bank)
                                    THEN "Missing preset value" ELSE "Missing bank value")
    /\ \A i \in unmatched :
          \E k \in 1..Len(warnings) :
              warnings[k].track = i /\ warnings[k].msg = "No instruments defined"
    /\ \A k \in 1..Len(warnings) :
          warnings[k].msg = "No instruments defined" => warnings[k].track # 0
    /\ (Sequenced /\ main_pc # "spawn") => tidx = Len(p_tracks)

\* The first track has a setting without a bank and then a valid one, the
\* second track is named and has no settings: two warnings and one worker,
\* and the run has gone on to the join.
C12_Witness ==
    /\ main_pc = "join"
    /\ Len(p_tracks) = 2
    /\ p_tracks[1] = Some("a") /\ p_tracks[2] = Some("b")
    /\ instr["a"] = Some(<< [bank |-> None, preset |-> Some(0)],
                           [bank |-> Some(0), preset |-> Some(0)] >>)
    /\ instr["b"] = None
    /\ Len(threads) = 1 /\ threads[1].track = 0 /\ threads[1].setting = 1
    /\ Len(warnings) = 2

(***************************************************************************)
(* Frame conditions of play_all, under Spec.                               *)
(***************************************************************************)
\* An iteration of the loop of play_all has processed an event: the last of out'.
Processed == pc = "loop" /\ Len(out') = Len(out) + 1
Last == out'[Len(out')]

\* The Player Tracks other than track i are as they were.
OthersUnchanged(i) == \A j \in DOMAIN tracks : j # i => tracks'[j] = tracks[j]

\* C17: a step of play_all changes tempo, anchor tick and anchor time only
\* for a tempo event, which leaves the tracks alone; a track name changes
\* only the name of its track, an end of track only the length of its track,
\* a note-on only appends one event to its track; any other event changes
\* neither the tempo state nor a track; the ticks per beat never change.
C17_FrameEffects ==
    [][Processed =>
        /\ ticks_per_beat' = ticks_per_beat
        /\ DOMAIN tracks' = DOMAIN tracks
        /\ Last.event.kind # "Tempo" =>
              tempo' = tempo /\ base_ticks' = base_ticks /\ base_time' = base_time
        /\ Last.event.kind = "Tempo" => tracks' = tracks
        /\ Last.event.kind = "TrackName" =>
              /\ OthersUnchanged(Last.idx)
              /\ tracks'[Last.idx].length = tracks[Last.idx].length
              /\ tracks'[Last.idx].events = tracks[Last.idx].events
        /\ Last.event.kind = "EndOfTrack" =>
              /\ OthersUnchanged(Last.idx)
              /\ tracks'[Last.idx].name = tracks[Last.idx].name
              /\ tracks'[Last.idx].events = tracks[Last.idx].events
        /\ Last.event.kind = "NoteOn" =>
              /\ OthersUnchanged(Last.idx)
              /\ tracks'[Last.idx].name = tracks[Last.idx].name
              /\ tracks'[Last.idx].length = tracks[Last.idx].length
              /\ Len(tracks'[Last.idx].events) = Len(tracks[Last.idx].events) + 1
              /\ SubSeq(tracks'[Last.idx].events, 1, Len(tracks[Last.idx].events))
                    = tracks[Last.idx].events
        /\ Last.event.kind \notin {"Tempo", "TrackName", "EndOfTrack", "NoteOn"} =>
              /\ tracks' = tracks
              /\ tempo' = tempo /\ base_ticks' = base_ticks /\ base_time' = base_time
      ]_vars

\* play_all has returned after a tempo event, a note-on and, last, a
\* note-off: the tempo is the new one and the track holds the one note.
C17_Witness ==
    /\ pc = "done"
    /\ Len(out) = 3
    /\ out[1].event.kind = "Tempo"
    /\ out[2].event.kind = "NoteOn"
    /\ out[3].event.kind = "NoteOff"
    /\ tempo = 1000000
    /\ Len(tracks[out[2].idx].events) = 1
    /\ Len(tracks[out[3].idx].events) <= 1

\* C18: two merged events of one absolute tick have one time, whatever
\* their tracks and wherever a tempo event of that tick stands between them;
\* the anchor tick is never above the tick of a pending event, and so the
\* subtraction tick - anchor tick never underflows.
C18_SameTickSameTime ==
    /\ \A j, k \in 1..Len(out) : out[j].ticks = out[k].ticks => out[j].time = out[k].time
    /\ pc = "loop" =>
          \A i \in DOMAIN seq : IsSome(seq[i].next) => base_ticks <= seq[i].ticks
    /\ play_panic # Some("attempt to subtract with overflow")

(***************************************************************************)
(* Further claims about the renderer, under SpecRender.                    *)
(***************************************************************************)
\* C13: the two buffers have one length, a multiple of the block size; the
\* blocks rendered so far are whole blocks, one after the other from offset
\* 0, that end inside the buffers (no slice is ever out of range), and when
\* render returns they fill the buffers.
C13_BuffersEqualBlockMultiple ==
    rpc # "start" =>
        /\ left = right
        /\ left % synth.block_size = 0
        /\ si = synth.blocks * synth.block_size
        /\ si <= left /\ si <= right
        /\ rpc = "panic" =>
              /\ PeekDue
              /\ ~IsSome(StrictAddSigned(r_track.events[it].note, transpose))
        /\ rpc = "done" => si = left

\* A render of three blocks or more has returned.
C13_Witness ==
    /\ rpc = "done"
    /\ synth.blocks >= 3
    /\ left = synth.blocks * synth.block_size
    /\ left = right

\* The offset of the block rendered last.
LastBlock == si - synth.block_size

\* C16: when a block has been rendered, every note of the track whose time is
\* at or before the start time of that block was dispatched before it and no
\* later note was; the notes are dispatched in list order, each at most once;
\* bank select and program change come before every note and every block.
C16_DueNotesDispatchedBeforeBlock ==
    /\ synth.blocks >= 1 =>
          \A k \in 1..Len(r_track.events) :
              DueAt(r_track.events[k].time, LastBlock)
                  <=> (k \in Dispatched /\ synth.notes[k].at <= LastBlock)
    /\ Len(synth.notes) <= Len(r_track.events)
    /\ \A k \in Dispatched :
          /\ synth.notes[k].vel = r_track.events[k].velocity
          /\ synth.notes[k].key = r_track.events[k].note + transpose
          /\ \A j \in 1..(k - 1) : synth.notes[j].at <= synth.notes[k].at
    /\ (Len(synth.notes) > 0 \/ synth.blocks > 0) =>
          synth.msgs = <<[channel |-> 0, command |-> 176, data1 |-> 0,
                          data2 |-> r_instr.bank],
                         [channel |-> 0, command |-> 192, data1 |-> r_instr.preset,
                          data2 |-> 0]>>

(***************************************************************************)
(* The renderer as a worker of midisynth runs it: the synthesizer of       *)
(* SynthesizerSettings::new(44100), whose block size is 64, and a padding   *)
(* of 1.5 s.                                                               *)
(***************************************************************************)
SAMPLE_RATE == 44100
BLOCK_SIZE == 64
PADDING == 1500000

\* Track lengths and note times: at the start, at the track's end, and past
\* the end of the padded buffer.
WorkerLengths == {0, 1000}
WorkerNoteTimes == {0, 1000, 1502000}
WorkerEvents == {[time |-> t, note |-> 60, velocity |-> 100] : t \in WorkerNoteTimes}

InitWorker ==
    /\ r_track \in {[name |-> Some(<<97>>), length |-> l, events |-> es] :
                       l \in WorkerLengths, es \in SeqsUpTo(WorkerEvents, MaxNotes)}
    /\ r_instr = [bank |-> 0, preset |-> 0, transpose |-> None]
    /\ r_padding = PADDING
    /\ synth = [sample_rate |-> SAMPLE_RATE, block_size |-> BLOCK_SIZE, msgs |-> << >>,
                notes |-> << >>, blocks |-> 0]
    /\ RenderStart
    /\ SeqIdle
    /\ MixIdle
    /\ PipeIdle
    /\ GainIdle

SpecWorker == InitWorker /\ [][NextRender]_vars

\* C19: when render returns, every note of the track whose time is at or
\* before the track's length has been dispatched, once.
C19_NotesWithinLengthDispatched ==
    rpc = "done" =>
        /\ \A k \in 1..Len(r_track.events) :
              r_track.events[k].time <= r_track.length => k \in Dispatched
        /\ Len(synth.notes) = it - 1
        /\ Len(synth.notes) <= Len(r_track.events)

(***************************************************************************)
(* The specification of MixerGainFactors::new alone, and the claim on it.  *)
(***************************************************************************)
InitGain ==
    /\ gain_db \in Gains
    /\ pan \in Pans
    /\ pan_rad = 0
    /\ factors = None
    /\ gpc = "start"
    /\ SeqIdle
    /\ RenderIdle
    /\ MixIdle
    /\ PipeStart

NextGain == GainFactorsNew

SpecGain == InitGain /\ [][NextGain]_vars

\* C20: for every pan in -1 .. 1 the pan angle lies in 0 .. pi/2; it is 0 for
\* pan = -1, pi/4 for pan = 0 and pi/2 for pan = 1.
C20_PanAngleRange ==
    (gpc = "done" /\ pan \in (-PanOne)..PanOne) =>
        /\ pan_rad \in 0..(2 * PanOne)
        /\ pan = -PanOne => pan_rad = 0
        /\ pan = 0 => pan_rad = PanOne
        /\ pan = PanOne => pan_rad = 2 * PanOne

(***************************************************************************)
(* Further claims about the sequencer, under Spec.                         *)
(***************************************************************************)
\* C14: next() returns None, and so ends the loop of play_all, only when no
\* cursor holds a pending event, whatever the ticks of the pending events;
\* the cursor next() selects holds a pending event.
C14_NoneOnlyWhenExhausted ==
    /\ pc = "done" => \A i \in DOMAIN seq : ~IsSome(seq[i].next)
    /\ (pc = "loop" /\ HasNext(seq)) => IsSome(seq[MinByKey(seq)].next)

\* The events of track i that next() has returned so far.
DeliveredOf(i) == {k \in 1..Len(out) : out[k].idx = i}

\* The absolute ticks have all stayed below u32::MAX so far: no tick addition
\* has overflowed (no panic for it, no tick of a track below the one before),
\* and no event stands at u32::MAX itself.
TicksBelowSentinel ==
    /\ play_panic \notin {Some("attempt to add with overflow"),
                          Some("attempt to subtract with overflow")}
    /\ \A k \in 1..Len(out) : out[k].ticks < U32_MAX
    /\ \A i \in DOMAIN seq : IsSome(seq[i].next) => seq[i].ticks < U32_MAX
    /\ \A j, k \in 1..Len(out) : (j < k /\ out[j].idx = out[k].idx) => out[j].ticks <= out[k].ticks
    /\ \A k \in 1..Len(out) : out[k].ticks <= seq[out[k].idx].ticks

\* Every event of every track has been delivered, once.
AllDelivered ==
    \A i \in DOMAIN seq :
        /\ seq[i].iter = 0 /\ ~IsSome(seq[i].next)
        /\ Cardinality(DeliveredOf(i)) = seq[i].count

\* C15: for a file of metrical timing (any other is the unsupported-feature
\* error) whose absolute ticks stay below u32::MAX, play_all does not fail and
\* each event is delivered at most once; when it returns every event of every
\* track has been delivered once and the progress bar stands at its pre-set
\* total, the sum of the per-track event counts.
C15_EveryEventDeliveredOnce ==
    (timing.kind = "Metrical" /\ TicksBelowSentinel) =>
        /\ pc # "panic"
        /\ \A i \in DOMAIN seq :
              Cardinality(DeliveredOf(i)) + seq[i].iter
                  + (IF IsSome(seq[i].next) THEN 1 ELSE 0) = seq[i].count
        /\ pc = "done" =>
              /\ AllDelivered
              /\ pbar.position = pbar.length
              /\ pbar.length = SumCounts(seq, 0)

====
